---- MODULE Spec2Model ----
(***************************************************************************)
(* VoiceCleanse.  The relay server: the API health monitor                 *)
(* (apiMonitor.ts), the e-mail notification service with its cooldown      *)
(* (emailService.ts), the configuration store (storage) and the routes     *)
(* that drive them (routes.ts).  The browser client: the upload            *)
(* validation of AudioUploader.tsx, the useAudioSeparation hook and the    *)
(* AudioSeparationAPI objects that poll a task.                            *)
(*                                                                         *)
(* Time is counted in minutes.  A status record is a JavaScript object:    *)
(* a probe keeps the reference it read when it started, so the records     *)
(* live in a heap (statusHeap) and healthStatus maps a URL to a reference. *)
(* An asynchronous handler is cut at its awaits: the fetch of the probe,   *)
(* the sendMail of the delivery, and on the client the health check, the   *)
(* upload and the poll request.                                            *)
(***************************************************************************)
EXTENDS Integers, Sequences, FiniteSets, TLC

\* ------------------------------------------------------------------ bounds
MaxTicks == 3          \* number of times the clock advances
MaxProbes == 2         \* number of probes started in one run
MaxScenarioProbes == 4 \* the same, in a run of the single-URL scenario
MaxInFlight == 2       \* probes whose fetch is unanswered at the same time
MaxDeliveries == 2     \* sendMail calls unanswered at the same time
StartNow == 60         \* Date.now() at process start (any positive instant)
MaxRuns == 1           \* processAudio invocations of one client run
MaxPolls == 2          \* getTaskStatus requests of one client run
MaxConfigChanges == 1  \* times the client sees the configured URL change
MaxNameLen == 4        \* length of the enumerated file names
MaxMinutes == 7        \* minutes that pass while the config cache is used

\* -------------------------------------------------------- program constants
CHECK_INTERVAL_MIN == 60   \* CHECK_INTERVAL_MS = 60 * 60 * 1000
MAX_RETRIES == 1
COOLDOWN_MINUTES == 180

Urls == {"u1", "u2"}
DefaultApiUrl == "u1"
ADMIN_PASSWORD == "fculab224"
Passwords == {ADMIN_PASSWORD, "wrong", ""}
\* description of an update request: absent, empty or a text
NoDescription == "<undefined>"
Descriptions == {NoDescription, "", "new backend"}
\* apiUrl / error of a request body; "" is the missing (falsy) value,
\* "not a url" fails z.string().url()
BodyUrls == Urls \cup {"", "not a url"}
BodyErrors == {"", "Failed to fetch"}

\* outcomes of one fetch of {url}/health
\* a non-2xx response, or a rejected fetch (network error or the abort of
\* the 10 s timeout, which take the same catch)
FailureKinds == {"HTTP 500", "AbortError"}
Outcomes == {"ok"} \cup FailureKinds
NoError == "<undefined>"

NoObj == 0
NoTimer == 0
ObjIds == 1..(Cardinality(Urls) + MaxInFlight)

VARIABLES
    now,                  \* Date.now(), minutes
    ticks,                \* how often the clock has advanced
    transporter,          \* EmailService.transporter is set (TRUE) or null
    lastNotificationTime, \* EmailService.lastNotificationTime: key -> time
    healthStatus,         \* ApiMonitor.healthStatus: url -> object reference
    statusHeap,           \* the ApiHealthStatus objects that are referenced
    monitoringIntervals,  \* ApiMonitor.monitoringIntervals: url -> timer id
    timers,               \* the intervals not cleared: [id, url, due]
    probes,               \* checkApiHealth invocations awaiting fetch
    deliveries,           \* sendNotification invocations awaiting sendMail
    apiConfig,            \* MemStorage.apiConfig
    probeBudget,          \* number of probes that may still be started
    unhandled,            \* a rejection escaped checkApiHealth
    hist,                 \* per status object: outcomes and notifications
    failedSince,          \* per status object: failed probes since the last
                          \* successful one
    lastDelivered,        \* per key: time the transport last accepted a mail
    alertFailed,          \* per URL: the delivery of its last error
                          \* notification failed and no probe succeeded since
    lastEvent,            \* what the last step did
    hook,                 \* useAudioSeparation: the state of the hook
    instances,            \* the AudioSeparationAPI objects created so far
    intervals,            \* startPolling's intervals that are not cleared
    polls,                \* getTaskStatus requests awaiting their response
    runs,                 \* processAudio invocations at one of their awaits
    clientBudget,         \* invocations, polls and config changes left
    terminated,           \* tasks whose polling a response has ended
    clientEvent,          \* what the last step of the client did
    uploader,             \* AudioUploader: the file handed to handleFileSelect
    configService         \* ApiConfigService: cachedConfig and configPromise

vars == <<now, ticks, transporter, lastNotificationTime, healthStatus,
          statusHeap, monitoringIntervals, timers, probes, deliveries,
          apiConfig, probeBudget, unhandled, hist, failedSince,
          lastDelivered, alertFailed, lastEvent, hook, instances, intervals,
          polls, runs, clientBudget, terminated, clientEvent, uploader, configService>>

serverVars == <<now, ticks, transporter, lastNotificationTime, healthStatus,
                statusHeap, monitoringIntervals, timers, probes, deliveries,
                apiConfig, probeBudget, unhandled, hist, failedSince,
                lastDelivered, alertFailed, lastEvent>>

clientVars == <<hook, instances, intervals, polls, runs, clientBudget,
                terminated, clientEvent, uploader, configService>>

\* ------------------------------------------------------- notification keys
ErrorTitle == "API connection failed"
RecoveredTitle == "API connection recovered"
TestTitle == "system test"

\* `${severity}_${title}_${apiUrl || 'unknown'}`
notificationKey(severity, title, apiUrl) ==
    <<severity, title, IF apiUrl = "" THEN "unknown" ELSE apiUrl>>

Keys == {notificationKey("error", ErrorTitle, u) : u \in Urls}
        \cup {notificationKey("info", RecoveredTitle, u) : u \in Urls}
        \cup {notificationKey("info", TestTitle, "")}

\* isInCooldown(key); a key never sent has no entry (0, as !lastTime)
isInCooldown_inclusive(lnt, key, t) ==
    IF lnt[key] = 0 THEN FALSE ELSE t - lnt[key] <= COOLDOWN_MINUTES

isInCooldown(lnt, key, t) ==
    IF lnt[key] = 0 THEN FALSE ELSE t - lnt[key] < COOLDOWN_MINUTES

\* The synchronous part of sendNotification, up to `await sendMail`:
\* "unconfigured" and "skipped" return false, "attempt" awaits the transport.
sendNotification(tr, lnt, key, t) ==
    IF ~tr THEN "unconfigured"
    ELSE IF isInCooldown(lnt, key, t) THEN "skipped"
    ELSE "attempt"

\* The part of sendNotification after `await sendMail`: the send time is
\* recorded when sendMail resolved (ok), not when it rejected.
recordSend_always(lnt, key, ok, t) == [lnt EXCEPT ![key] = t]

recordSend(lnt, key, ok, t) == IF ok THEN [lnt EXCEPT ![key] = t] ELSE lnt

\* what sendNotification does when sendMail rejects: the catch returns false
sendMailRejected_rethrow == "throw"

sendMailRejected == "return false"

\* --------------------------------------------------------- status records
\* a monitor that assumes the backend healthy until a probe says otherwise
initialStatus_healthy(t) ==
    [isHealthy |-> TRUE, lastCheck |-> t, lastError |-> NoError,
     consecutiveFailures |-> 0, uptime |-> 100]

\* the record startMonitoring stores
initialStatus(t) ==
    [isHealthy |-> FALSE, lastCheck |-> t, lastError |-> NoError,
     consecutiveFailures |-> 0, uptime |-> 100]

\* a handler that reports a recovery only after an observed failure
handleHealthyResponse_afterFailure(status, t) ==
    LET wasUnhealthy == ~status.isHealthy /\ status.lastError # NoError
        new == [status EXCEPT !.isHealthy = TRUE, !.lastCheck = t,
                              !.consecutiveFailures = 0, !.lastError = NoError]
    IN  [status |-> new,
         notify |-> IF wasUnhealthy /\ new.lastCheck > 0 THEN "recovered" ELSE "none"]

\* handleHealthyResponse: the new record and whether notifyApiRecovered runs
handleHealthyResponse(status, t) ==
    LET wasUnhealthy == ~status.isHealthy
        new == [status EXCEPT !.isHealthy = TRUE, !.lastCheck = t,
                              !.consecutiveFailures = 0, !.lastError = NoError]
    IN  [status |-> new,
         notify |-> IF wasUnhealthy /\ new.lastCheck > 0 THEN "recovered" ELSE "none"]

\* a handler that notifies on every failure at or above the threshold
handleUnhealthyResponse_levelTriggered(status, error, t) ==
    LET new == [status EXCEPT !.isHealthy = FALSE, !.lastCheck = t,
                              !.consecutiveFailures = @ + 1, !.lastError = error]
    IN  [status |-> new,
         notify |-> IF new.consecutiveFailures >= MAX_RETRIES
                    THEN "error" ELSE "none"]

\* a handler that sets the failure counter instead of incrementing it
handleUnhealthyResponse_setsOne(status, error, t) ==
    LET wasHealthy == status.isHealthy
        new == [status EXCEPT !.isHealthy = FALSE, !.lastCheck = t,
                              !.consecutiveFailures = 1, !.lastError = error]
    IN  [status |-> new,
         notify |-> IF wasHealthy /\ new.consecutiveFailures >= MAX_RETRIES
                    THEN "error" ELSE "none"]

\* handleUnhealthyResponse: the new record and whether
\* notifyApiConnectionError runs
handleUnhealthyResponse(status, error, t) ==
    LET wasHealthy == status.isHealthy
        new == [status EXCEPT !.isHealthy = FALSE, !.lastCheck = t,
                              !.consecutiveFailures = @ + 1, !.lastError = error]
    IN  [status |-> new,
         notify |-> IF wasHealthy /\ new.consecutiveFailures >= MAX_RETRIES
                    THEN "error" ELSE "none"]

\* the part of checkApiHealth after the fetch settles
probeSettled(status, outcome, t) ==
    IF outcome = "ok" THEN handleHealthyResponse(status, t)
    ELSE handleUnhealthyResponse(status, outcome, t)

keyOf(notify, url) ==
    IF notify = "error" THEN notificationKey("error", ErrorTitle, url)
    ELSE notificationKey("info", RecoveredTitle, url)

\* ------------------------------------------------------------ the monitor
\* a stopMonitoring that forgets the interval without clearing it
stopMonitoring_noClear(mi, tm, u) ==
    [mi |-> [mi EXCEPT ![u] = NoTimer], tm |-> tm]

\* stopMonitoring(apiUrl) on the pair (monitoringIntervals, timers)
stopMonitoring(mi, tm, u) ==
    IF mi[u] # NoTimer
    THEN [mi |-> [mi EXCEPT ![u] = NoTimer],
          tm |-> {x \in tm : x.id # mi[u]}]
    ELSE [mi |-> mi, tm |-> tm]

\* a cleanup that empties the map without clearing the intervals
cleanup_keepsTimers(mi, tm) ==
    [mi |-> [u \in Urls |-> NoTimer], tm |-> tm]

\* cleanup(): clears every interval of the map, then the map
cleanup(mi, tm) ==
    [mi |-> [u \in Urls |-> NoTimer],
     tm |-> {x \in tm : \A u \in Urls : mi[u] # x.id}]

freshTimerId(tm) ==
    CHOOSE i \in 1..(Cardinality(tm) + 1) : \A x \in tm : x.id # i

freshObj(hs, pr) ==
    CHOOSE o \in ObjIds :
        /\ \A u \in Urls : hs[u] # o
        /\ \A p \in DOMAIN pr : pr[p].obj # o

freshSlot(f, max) == CHOOSE i \in 1..max : i \notin DOMAIN f

\* the status objects still referenced by the map or by a running probe
liveObjs(hs, pr) ==
    ({hs[u] : u \in Urls} \cup {pr[p].obj : p \in DOMAIN pr}) \ {NoObj}

Put(f, k, v) == [x \in DOMAIN f \cup {k} |-> IF x = k THEN v ELSE f[x]]
Drop(f, k) == [x \in DOMAIN f \ {k} |-> f[x]]
Restrict(f, S) == [x \in DOMAIN f \cap S |-> f[x]]

\* optional values are sets with at most one element
None == {}
Some(x) == {x}

\* lastEvent: op is the step; for a settled probe url/obj/outcome/caller,
\* the record before and after and the notification it triggered; send is
\* what sendNotification did; returned/probed/result describe a checkNow
\* that returned in this step; status is the HTTP status of a route.
NoEvent ==
    [op |-> "init", url |-> "", outcome |-> "", caller |-> "",
     before |-> None, after |-> None, notified |-> "none", send |-> "none",
     first |-> FALSE, returned |-> FALSE, probed |-> FALSE, result |-> None,
     status |-> 0, wellFormed |-> FALSE, secret |-> FALSE,
     description |-> NoDescription]

Event(op, url) == [NoEvent EXCEPT !.op = op, !.url = url]

\* ------------------------------------------------------------ client state
\* The browser client: the useAudioSeparation hook, the AudioSeparationAPI
\* objects it creates and the AudioUploader component.  A task is numbered
\* by the processAudio invocation that uploads it, and an interval of
\* startPolling by the task it polls.
NoInst == 0
NoTask == 0
NoMessage == ""

HookInit ==
    [api |-> NoInst, currentApiUrl |-> "", isProcessing |-> FALSE,
     progress |-> 0, status |-> "", result |-> NoTask, error |-> NoMessage,
     currentTaskId |-> NoTask]

NoClientEvent ==
    [op |-> "init", run |-> 0, task |-> NoTask, inst |-> NoInst,
     outcome |-> "", checks |-> 0, next |-> "", stale |-> FALSE,
     changed |-> FALSE, rejected |-> FALSE]

ClientEvent(op) == [NoClientEvent EXCEPT !.op = op]

NoFile == [stage |-> "none", name |-> <<>>, size |-> 0, confirmed |-> FALSE,
           outcome |-> "none"]

WorkflowInit ==
    /\ hook = HookInit
    /\ instances = <<>>
    /\ intervals = {}
    /\ polls = {}
    /\ runs = {}
    /\ clientBudget = [runs |-> MaxRuns, polls |-> MaxPolls,
                       configs |-> MaxConfigChanges]
    /\ terminated = {}
    /\ clientEvent = NoClientEvent
    /\ configService = [cachedConfig |-> None, configPromise |-> FALSE,
                        fetchedAt |-> 0]

ClientInit ==
    /\ WorkflowInit
    /\ uploader = NoFile


ServerInit ==
    /\ now = StartNow
    /\ ticks = 0
    /\ transporter \in BOOLEAN
    /\ lastNotificationTime = [k \in Keys |-> 0]
    /\ healthStatus = [u \in Urls |-> NoObj]
    /\ statusHeap = <<>>
    /\ monitoringIntervals = [u \in Urls |-> NoTimer]
    /\ timers = {}
    /\ probes = <<>>
    /\ deliveries = <<>>
    /\ apiConfig = [apiUrl |-> DefaultApiUrl, isActive |-> TRUE,
                    description |-> "default audio API", updatedAt |-> StartNow,
                    updatedBy |-> "system", id |-> "uuid-0"]
    /\ probeBudget = MaxProbes
    /\ unhandled = FALSE
    /\ hist = <<>>
    /\ failedSince = <<>>
    /\ lastDelivered = [k \in Keys |-> 0]
    /\ alertFailed = [u \in Urls |-> FALSE]
    /\ lastEvent = NoEvent

Init ==
    /\ ServerInit
    /\ ClientInit


\* ---------------------------------------------------------------- helpers
\* hist follows a status object from its creation for as long as its probe
\* outcomes are a prefix of Scenario: the outcomes and, after each, the
\* notification it triggered.  A run that leaves the scenario is Off.
Scenario == <<"fail", "fail", "success", "fail">>
Off == <<"off">>

outcomesOf(h) == SelectSeq(h, LAMBDA x : x \in {"fail", "success"})

isPrefix(a, b) == Len(a) <= Len(b) /\ a = SubSeq(b, 1, Len(a))

track(h, outcome, notify) ==
    LET new == (h \o <<IF outcome = "ok" THEN "success" ELSE "fail">>)
               \o (IF notify = "none" THEN <<>> ELSE <<notify>>)
    IN  IF h # Off /\ isPrefix(outcomesOf(new), Scenario) THEN new ELSE Off

canProbe ==
    /\ Cardinality(DOMAIN probes) < MaxInFlight
    /\ probeBudget > 0

\* getHealthStatus(apiUrl) on a map and a heap
getHealthStatus(hs, heap, u) ==
    IF hs[u] = NoObj THEN None ELSE Some(heap[hs[u]])

\* getAllHealthStatus(): the URLs GET /api/monitor/status reports
getAllHealthStatus == {u \in Urls : healthStatus[u] # NoObj}

\* drop the status objects nothing refers to any more
Collect(hs, pr, heap, h, fs) ==
    /\ healthStatus' = hs
    /\ probes' = pr
    /\ statusHeap' = Restrict(heap, liveObjs(hs, pr))
    /\ hist' = Restrict(h, liveObjs(hs, pr))
    /\ failedSince' = Restrict(fs, liveObjs(hs, pr))

\* startMonitoring(apiUrl), run on the timers (mi, tm): stops the URL's
\* timer, stores a new status object, starts the immediate probe and
\* registers a new interval
startMonitoring(mi, tm, u) ==
    LET s == stopMonitoring(mi, tm, u)
        o == freshObj(healthStatus, probes)
        tid == freshTimerId(s.tm)
        hs == [healthStatus EXCEPT ![u] = o]
        pr == Put(probes, freshSlot(probes, MaxInFlight),
                  [url |-> u, obj |-> o, caller |-> "start",
                   replacedHealthy |->
                       (healthStatus[u] # NoObj
                        /\ statusHeap[healthStatus[u]].isHealthy)])
    IN  /\ Collect(hs, pr, Put(statusHeap, o, initialStatus(now)),
                   Put(hist, o, <<>>), Put(failedSince, o, 0))
        /\ timers' = s.tm \cup {[id |-> tid, url |-> u,
                                 due |-> now + CHECK_INTERVAL_MIN]}
        /\ monitoringIntervals' = [s.mi EXCEPT ![u] = tid]
        /\ probeBudget' = probeBudget - 1

\* ----------------------------------------------------------------- routes
\* POST /api/monitor/connection-error {apiUrl, error}
PostConnectionError(apiUrl, error) ==
    IF apiUrl = "" \/ error = ""
    THEN /\ lastEvent' = [Event("connectionError", "") EXCEPT !.status = 400]
         /\ UNCHANGED <<now, ticks, transporter, lastNotificationTime,
                        healthStatus, statusHeap, monitoringIntervals, timers,
                        probes, deliveries, apiConfig, probeBudget,
                        unhandled, hist, failedSince,
                   lastDelivered, alertFailed, clientVars>>
    ELSE /\ apiUrl \in Urls
         /\ canProbe
         /\ startMonitoring(monitoringIntervals, timers, apiUrl)
         /\ lastEvent' = [Event("startMonitoring", apiUrl) EXCEPT !.status = 200]
         /\ UNCHANGED <<now, ticks, transporter, lastNotificationTime,
                        deliveries, apiConfig, unhandled, lastDelivered, alertFailed, clientVars>>

\* MemStorage.setApiConfig: spreads the given fields, keeps the id
setApiConfig_merge(old, config, t) ==
    [apiUrl |-> config.apiUrl, isActive |-> config.isActive,
     description |-> old.description, updatedBy |-> config.updatedBy,
     id |-> old.id, updatedAt |-> t]
setApiConfig(old, config, t) ==
    [apiUrl |-> config.apiUrl, isActive |-> config.isActive,
     description |-> config.description, updatedBy |-> config.updatedBy,
     id |-> old.id, updatedAt |-> t]

\* validatedData.adminPassword !== ADMIN_PASSWORD answers 401
passwordAccepted_any(adminPassword) == TRUE
passwordAccepted(adminPassword) == adminPassword = ADMIN_PASSWORD

\* POST /api/config {apiUrl, description, adminPassword}
PostConfig(apiUrl, description, adminPassword) ==
    IF apiUrl \notin Urls \/ adminPassword = ""
    THEN \* updateApiConfigSchema.parse throws a ZodError
         /\ lastEvent' = [Event("postConfig", "") EXCEPT
                              !.status = 400,
                              !.secret = (adminPassword = ADMIN_PASSWORD)]
         /\ UNCHANGED <<now, ticks, transporter, lastNotificationTime,
                        healthStatus, statusHeap, monitoringIntervals, timers,
                        probes, deliveries, apiConfig, probeBudget,
                        unhandled, hist, failedSince,
                   lastDelivered, alertFailed, clientVars>>
    ELSE IF ~passwordAccepted(adminPassword)
    THEN /\ lastEvent' = [Event("postConfig", "") EXCEPT
                              !.status = 401, !.wellFormed = TRUE,
                              !.secret = (adminPassword = ADMIN_PASSWORD)]
         /\ UNCHANGED <<now, ticks, transporter, lastNotificationTime,
                        healthStatus, statusHeap, monitoringIntervals, timers,
                        probes, deliveries, apiConfig, probeBudget,
                        unhandled, hist, failedSince,
                   lastDelivered, alertFailed, clientVars>>
    ELSE LET c == cleanup(monitoringIntervals, timers)
         IN  /\ canProbe
             /\ apiConfig' = setApiConfig(apiConfig,
                    [apiUrl |-> apiUrl, isActive |-> TRUE,
                     description |-> IF description \in {NoDescription, ""}
                                     THEN "API config updated"
                                     ELSE description,
                     updatedBy |-> "admin"], now)
             /\ startMonitoring(c.mi, c.tm, apiUrl)
             /\ lastEvent' = [Event("postConfig", apiUrl) EXCEPT
                                  !.status = 200, !.wellFormed = TRUE,
                                  !.secret = (adminPassword = ADMIN_PASSWORD),
                                  !.description = description]
             /\ UNCHANGED <<now, ticks, transporter, lastNotificationTime,
                            deliveries, unhandled, lastDelivered, alertFailed, clientVars>>

\* ApiMonitor.stopMonitoring(apiUrl), called directly
StopMonitoring(u) ==
    LET s == stopMonitoring(monitoringIntervals, timers, u)
    IN  /\ monitoringIntervals' = s.mi
        /\ timers' = s.tm
        /\ lastEvent' = Event("stopMonitoring", u)
        /\ UNCHANGED <<now, ticks, transporter, lastNotificationTime,
                       healthStatus, statusHeap, probes, deliveries, apiConfig,
                       probeBudget, unhandled, hist, failedSince,
                   lastDelivered, alertFailed, clientVars>>

\* ApiMonitor.cleanup(), called directly
Cleanup ==
    LET c == cleanup(monitoringIntervals, timers)
    IN  /\ monitoringIntervals' = c.mi
        /\ timers' = c.tm
        /\ lastEvent' = Event("cleanup", "")
        /\ UNCHANGED <<now, ticks, transporter, lastNotificationTime,
                       healthStatus, statusHeap, probes, deliveries, apiConfig,
                       probeBudget, unhandled, hist, failedSince,
                   lastDelivered, alertFailed, clientVars>>


\* ----------------------------------------------------------------- probes
\* the interval callback of a registered timer: checkApiHealth(apiUrl)
TimerFire(t) ==
    /\ t \in timers
    /\ t.due <= now
    /\ timers' = (timers \ {t}) \cup {[t EXCEPT !.due = @ + CHECK_INTERVAL_MIN]}
    /\ IF healthStatus[t.url] = NoObj
       THEN UNCHANGED <<healthStatus, statusHeap, probes, hist, failedSince,
                            probeBudget>>
       ELSE /\ canProbe
            /\ Collect(healthStatus,
                       Put(probes, freshSlot(probes, MaxInFlight),
                           [url |-> t.url, obj |-> healthStatus[t.url],
                            caller |-> "timer", replacedHealthy |-> FALSE]),
                       statusHeap, hist, failedSince)
            /\ probeBudget' = probeBudget - 1
    /\ lastEvent' = Event("timer", t.url)
    /\ UNCHANGED <<now, ticks, transporter, lastNotificationTime,
                   monitoringIntervals, deliveries, apiConfig, unhandled,
                   lastDelivered, alertFailed, clientVars>>

\* POST /api/monitor/check/{encodedUrl}: checkNow(apiUrl) up to the fetch.
\* Without a status record checkApiHealth returns at once and checkNow
\* returns getHealthStatus(apiUrl), which is null.
CheckNow(u) ==
    /\ IF healthStatus[u] = NoObj
       THEN /\ lastEvent' = [Event("checkNow", u) EXCEPT
                                 !.caller = "checkNow", !.returned = TRUE,
                                 !.probed = FALSE,
                                 !.result = getHealthStatus(healthStatus, statusHeap, u)]
            /\ UNCHANGED <<healthStatus, statusHeap, probes, hist, failedSince,
                            probeBudget>>
       ELSE /\ canProbe
            /\ Collect(healthStatus,
                       Put(probes, freshSlot(probes, MaxInFlight),
                           [url |-> u, obj |-> healthStatus[u],
                            caller |-> "checkNow",
                            replacedHealthy |-> FALSE]),
                       statusHeap, hist, failedSince)
            /\ probeBudget' = probeBudget - 1
            /\ lastEvent' = [Event("checkNow", u) EXCEPT !.caller = "checkNow"]
    /\ UNCHANGED <<now, ticks, transporter, lastNotificationTime,
                   monitoringIntervals, timers, deliveries, apiConfig,
                   unhandled, lastDelivered, alertFailed, clientVars>>

\* The status object the handlers of a probe update: the reference that
\* checkApiHealth read from the map before its fetch.
probeTarget_reread(hs, pr) ==
    IF hs[pr.url] # NoObj THEN hs[pr.url] ELSE pr.obj

probeTarget(hs, pr) ==
    pr.obj

\* The fetch of probe p settles with the given outcome: the handler updates
\* the status object the probe holds, and a triggered notification runs
\* sendNotification up to its await.
ProbeResolve(p, outcome) ==
    /\ p \in DOMAIN probes
    /\ LET pr == probes[p]
           obj == probeTarget(healthStatus, pr)
           st == statusHeap[obj]
           r == probeSettled(st, outcome, now)
           key == keyOf(r.notify, pr.url)
           send == IF r.notify = "none" THEN "none"
                   ELSE sendNotification(transporter, lastNotificationTime, key, now)
           heap == [statusHeap EXCEPT ![obj] = r.status]
           h == [hist EXCEPT ![obj] = track(@, outcome, r.notify)]
           done == send # "attempt"
           fs == [failedSince EXCEPT ![obj] =
                     IF outcome = "ok" THEN 0 ELSE @ + 1]
       IN  /\ Collect(healthStatus, Drop(probes, p), heap, h, fs)
           /\ IF done
              THEN UNCHANGED deliveries
              ELSE /\ Cardinality(DOMAIN deliveries) < MaxDeliveries
                   /\ deliveries' = Put(deliveries,
                                        freshSlot(deliveries, MaxDeliveries),
                                        [key |-> key, url |-> pr.url,
                                         caller |-> pr.caller,
                                         notify |-> r.notify,
                                         snap |-> Some(r.status)])
           /\ alertFailed' = [alertFailed EXCEPT ![pr.url] =
                                  IF outcome = "ok" \/ send = "attempt"
                                  THEN FALSE ELSE @]
           /\ lastEvent' = [Event("probe", pr.url) EXCEPT
                  !.outcome = outcome, !.caller = pr.caller,
                  !.first = (hist[obj] = <<>>),
                  !.before = Some(st), !.after = Some(r.status),
                  !.notified = r.notify, !.send = send,
                  !.returned = (done /\ pr.caller = "checkNow"),
                  !.probed = (done /\ pr.caller = "checkNow"),
                  !.result = IF done /\ pr.caller = "checkNow"
                             THEN getHealthStatus(healthStatus, heap, pr.url)
                             ELSE None]
    /\ UNCHANGED <<now, ticks, transporter, lastNotificationTime,
                   monitoringIntervals, timers, apiConfig, probeBudget,
                   unhandled, lastDelivered, clientVars>>

\* sendMail of delivery d settles: on success the send time is recorded,
\* on rejection the catch of sendNotification returns false.  The caller's
\* continuation then ends; checkNow returns getHealthStatus(apiUrl).
DeliveryResolve(d, ok) ==
    /\ d \in DOMAIN deliveries
    /\ LET dl == deliveries[d]
           escapes == ~ok /\ sendMailRejected # "return false"
           returns == dl.caller = "checkNow" /\ ~escapes
       IN  /\ deliveries' = Drop(deliveries, d)
           /\ lastNotificationTime' =
                 recordSend(lastNotificationTime, dl.key, ok, now)
           /\ lastDelivered' =
                 IF ok THEN [lastDelivered EXCEPT ![dl.key] = now]
                 ELSE lastDelivered
           /\ unhandled' = (unhandled \/ (escapes /\ dl.caller # "test"))
           /\ alertFailed' = IF dl.notify = "error"
                             THEN [alertFailed EXCEPT ![dl.url] = ~ok]
                             ELSE alertFailed
           /\ lastEvent' = [Event("delivery", dl.url) EXCEPT
                  !.caller = dl.caller,
                  !.notified = dl.notify,
                  !.send = IF ok THEN "delivered" ELSE "failed",
                  !.after = IF returns THEN dl.snap ELSE None,
                  !.returned = returns, !.probed = returns,
                  !.result = IF returns
                             THEN getHealthStatus(healthStatus, statusHeap, dl.url)
                             ELSE None]
    /\ UNCHANGED <<now, ticks, transporter, healthStatus, statusHeap,
                   monitoringIntervals, timers, probes, apiConfig,
                   probeBudget, hist, failedSince, clientVars>>

\* POST /api/test-email: testEmail() calls sendNotification without a URL
TestEmail ==
    LET key == notificationKey("info", TestTitle, "")
        send == sendNotification(transporter, lastNotificationTime, key, now)
    IN  /\ IF send = "attempt"
           THEN /\ Cardinality(DOMAIN deliveries) < MaxDeliveries
                /\ deliveries' = Put(deliveries,
                                     freshSlot(deliveries, MaxDeliveries),
                                     [key |-> key, url |-> "", caller |-> "test",
                                      notify |-> "test", snap |-> None])
           ELSE UNCHANGED deliveries
        /\ lastEvent' = [Event("testEmail", "") EXCEPT
                             !.caller = "test", !.notified = "test",
                             !.send = send]
        /\ UNCHANGED <<now, ticks, transporter, lastNotificationTime,
                       healthStatus, statusHeap, monitoringIntervals, timers,
                       probes, apiConfig, probeBudget, unhandled, hist,
                       failedSince, lastDelivered, alertFailed, clientVars>>

\* One check interval passes.  Every due interval callback has run, no
\* fetch is pending (a fetch is aborted after TIMEOUT_MS = 10 s) and no
\* sendMail is pending (the transport's socket timeouts are minutes).
AdvanceTime ==
    /\ ticks < MaxTicks
    /\ \A t \in timers : t.due > now
    /\ DOMAIN probes = {}
    /\ DOMAIN deliveries = {}
    /\ now' = now + CHECK_INTERVAL_MIN
    /\ ticks' = ticks + 1
    /\ lastEvent' = Event("advance", "")
    /\ UNCHANGED <<transporter, lastNotificationTime, healthStatus, statusHeap,
                   monitoringIntervals, timers, probes, deliveries, apiConfig,
                   probeBudget, unhandled, hist, failedSince,
                   lastDelivered, alertFailed, clientVars>>

\* The monitor and the mail service, driven through the ApiMonitor methods.
Next ==
    \/ \E u \in BodyUrls, e \in BodyErrors : PostConnectionError(u, e)
    \/ \E u \in Urls : StopMonitoring(u)
    \/ Cleanup
    \/ \E u \in Urls : CheckNow(u)
    \/ \E t \in timers : TimerFire(t)
    \/ \E p \in 1..MaxInFlight, o \in Outcomes : ProbeResolve(p, o)
    \/ \E d \in 1..MaxDeliveries, ok \in BOOLEAN : DeliveryResolve(d, ok)
    \/ AdvanceTime

Spec == Init /\ [][Next]_vars

\* The relay server as its HTTP routes drive it: stopMonitoring is reached
\* only through startMonitoring, cleanup only through POST /api/config.
NextRoutes ==
    \/ \E u \in BodyUrls, e \in BodyErrors : PostConnectionError(u, e)
    \/ \E u \in BodyUrls, d \in Descriptions, pw \in Passwords : PostConfig(u, d, pw)
    \/ \E u \in Urls : CheckNow(u)
    \/ TestEmail
    \/ \E t \in timers : TimerFire(t)
    \/ \E p \in 1..MaxInFlight, o \in Outcomes : ProbeResolve(p, o)
    \/ \E d \in 1..MaxDeliveries, ok \in BOOLEAN : DeliveryResolve(d, ok)
    \/ AdvanceTime

SpecRoutes == Init /\ [][NextRoutes]_vars

\* The configuration route on a server without mail credentials (the
\* transporter stays null, so no sendMail is ever pending): connection
\* reports and configuration updates start and restart the monitor.
InitConfig ==
    /\ Init
    /\ transporter = FALSE

NextConfig ==
    \/ \E u \in Urls : PostConnectionError(u, "Failed to fetch")
    \/ \E u \in BodyUrls, d \in Descriptions, pw \in Passwords : PostConfig(u, d, pw)
    \/ \E t \in timers : TimerFire(t)
    \/ \E p \in 1..MaxInFlight, o \in Outcomes : ProbeResolve(p, o)
    \/ AdvanceTime

SpecConfig == InitConfig /\ [][NextConfig]_vars

\* The scenario of one URL: monitoring is started once for ScenarioUrl and
\* then only the interval callback probes it.
ScenarioUrl == "u1"

InitScenario ==
    /\ now = StartNow
    /\ ticks = 0
    /\ transporter \in BOOLEAN
    /\ lastNotificationTime = [k \in Keys |-> 0]
    /\ healthStatus = [u \in Urls |-> NoObj]
    /\ statusHeap = <<>>
    /\ monitoringIntervals = [u \in Urls |-> NoTimer]
    /\ timers = {}
    /\ probes = <<>>
    /\ deliveries = <<>>
    /\ apiConfig = [apiUrl |-> DefaultApiUrl, isActive |-> TRUE,
                    description |-> "default audio API", updatedAt |-> StartNow,
                    updatedBy |-> "system", id |-> "uuid-0"]
    /\ probeBudget = MaxScenarioProbes
    /\ unhandled = FALSE
    /\ hist = <<>>
    /\ failedSince = <<>>
    /\ lastDelivered = [k \in Keys |-> 0]
    /\ alertFailed = [u \in Urls |-> FALSE]
    /\ lastEvent = NoEvent
    /\ ClientInit

StartScenario ==
    /\ healthStatus[ScenarioUrl] = NoObj
    /\ PostConnectionError(ScenarioUrl, "Failed to fetch")

NextScenario ==
    \/ StartScenario
    \/ \E t \in timers : TimerFire(t)
    \/ \E p \in 1..MaxInFlight, o \in Outcomes : ProbeResolve(p, o)
    \/ \E d \in 1..MaxDeliveries, ok \in BOOLEAN : DeliveryResolve(d, ok)
    \/ AdvanceTime

SpecScenario == InitScenario /\ [][NextScenario]_vars


\* ---------------------------------------------------------- AudioUploader
\* A file name is a sequence of characters.  Chars are the characters of
\* the enumerated names; NamedFiles are longer names with the extensions
\* the component lists, in either case, and with others.
Chars == {".", "w", "a", "v", "W"}
ShortNames == UNION {[1..n -> Chars] : n \in 0..MaxNameLen}
NamedFiles ==
    {<<"s", ".", "m", "p", "3">>, <<"s", ".", "M", "P", "3">>,
     <<".", "f", "l", "a", "c">>, <<"s", ".", "f", "l", "a", "c">>,
     <<"s", ".", "o", "g", "g">>, <<"s", ".", "m", "4", "a">>,
     <<"s", ".", "M", "4", "A">>, <<"s", ".", "w", "a", "v", ".", "t", "x", "t">>,
     <<"s", ".", "t", "x", "t">>, <<"m", "p", "3">>, <<"f", "l", "a", "c">>,
     <<"s", ".", "m", "p", "3", ".">>, <<"s", ".", "m", "p", "4">>,
     <<"s", "m", "4", "a">>, <<"s", ".", "t", "x", "t", ".", "o", "g", "g">>}
Names == ShortNames \cup NamedFiles

maxSize == 50 * 1024 * 1024
Sizes == {0, maxSize - 1, maxSize, maxSize + 1, 2 * maxSize}

allowedExtensions ==
    {<<".", "w", "a", "v">>, <<".", "m", "p", "3">>,
     <<".", "f", "l", "a", "c">>, <<".", "o", "g", "g">>,
     <<".", "m", "4", "a">>}

\* String.prototype.toLowerCase on the characters in use
toLowerCase(str) ==
    [i \in DOMAIN str |->
        CASE str[i] = "W" -> "w"
          [] str[i] = "A" -> "a"
          [] str[i] = "M" -> "m"
          [] str[i] = "P" -> "p"
          [] OTHER -> str[i]]

\* String.prototype.lastIndexOf: 0-based, -1 when absent
lastIndexOf(str, c) ==
    IF \E i \in DOMAIN str : str[i] = c
    THEN (CHOOSE i \in DOMAIN str :
              str[i] = c /\ \A j \in DOMAIN str : str[j] = c => j <= i) - 1
    ELSE -1

\* String.prototype.substring(start): a negative start counts as 0
substring(str, start) ==
    LET from == IF start < 0 THEN 0
                ELSE IF start > Len(str) THEN Len(str) ELSE start
    IN  SubSeq(str, from + 1, Len(str))

\* file.size > maxSize is refused
withinMaxSize_double(size) == size <= 2 * maxSize
withinMaxSize(size) == size <= maxSize

\* handleFileSelect on a file; confirmed is the answer to the M4A dialog
handleFileSelect(name, size, confirmed) ==
    LET fileExtension ==
            substring(toLowerCase(name), lastIndexOf(name, "."))
    IN  IF ~withinMaxSize(size) THEN "too large"
        ELSE IF fileExtension \notin allowedExtensions THEN "unsupported"
        ELSE IF fileExtension = <<".", "m", "4", "a">> /\ ~confirmed
        THEN "declined"
        ELSE "onFileSelect"

InitUpload ==
    /\ ServerInit
    /\ WorkflowInit
    /\ uploader \in [stage : {"chosen"}, name : Names, size : Sizes,
                     confirmed : BOOLEAN, outcome : {"none"}]

\* the change event of the file input, or a drop, with the chosen file
HandleFileSelect ==
    /\ uploader.stage = "chosen"
    /\ uploader' = [uploader EXCEPT
           !.stage = "handled",
           !.outcome = handleFileSelect(uploader.name, uploader.size,
                                        uploader.confirmed)]
    /\ UNCHANGED <<serverVars, hook, instances, intervals, polls, runs,
                   clientBudget, terminated, clientEvent, configService>>

NextUpload == HandleFileSelect

SpecUpload == InitUpload /\ [][NextUpload]_vars

\* ------------------------------------------------- AudioSeparationAPI
\* new AudioSeparationAPI(baseURL)
newInstance(insts, u) ==
    Append(insts, [baseURL |-> u, pollingInterval |-> NoTask])

\* a stopPolling that forgets the interval without clearing it
stopPolling_noClear(insts, ivs, i) ==
    [insts |-> [insts EXCEPT ![i].pollingInterval = NoTask], ivs |-> ivs]

\* stopPolling() of instance i
stopPolling(insts, ivs, i) ==
    IF insts[i].pollingInterval # NoTask
    THEN [insts |-> [insts EXCEPT ![i].pollingInterval = NoTask],
          ivs |-> {t \in ivs : t.task # insts[i].pollingInterval}]
    ELSE [insts |-> insts, ivs |-> ivs]

\* startPolling(taskId, ...) of instance i: clears the interval the
\* instance holds and registers one for the task
startPolling(insts, ivs, i, task) ==
    [insts |-> [insts EXCEPT ![i].pollingInterval = task],
     ivs |-> {t \in ivs : t.task # insts[i].pollingInterval}
                 \cup {[task |-> task, inst |-> i]}]

\* what a response of GET /status/{taskId} is: the task's status, or the
\* request failed
PollOutcomes == {"processing", "completed", "failed", "error"}
\* what a response of GET /health is: status ok, another status, or the
\* request failed
HealthOutcomes == {"ok", "not ok", "error"}

\* ------------------------------------------------- useAudioSeparation
\* processAudio after a health check that it awaited at pc: the first
\* check gates the upload; after a failed first check the result of
\* checkHealth(true) is taken as "nothing more to check", and the third
\* check gates the upload again
afterHealth_noGate(pc, outcome) ==
    IF pc = "health1" /\ outcome # "ok" THEN "health2"
    ELSE IF pc = "health2" /\ outcome # "ok" THEN "health3"
    ELSE "upload"
afterHealth(pc, outcome) ==
    IF pc = "health1" THEN (IF outcome = "ok" THEN "upload" ELSE "health2")
    ELSE IF pc = "health2" THEN (IF outcome = "ok" THEN "throw" ELSE "health3")
    ELSE IF outcome = "ok" THEN "upload" ELSE "throw"

\* the state fields the claims call the workflow state
workflow(h) ==
    <<h.isProcessing, h.progress, h.status, h.result, h.error,
      h.currentTaskId>>

\* the initial effect: getConfig() answers (or the fallback is used)
InitializeApiConfig(u) ==
    /\ instances = <<>>
    /\ instances' = newInstance(instances, u)
    /\ hook' = [hook EXCEPT !.api = 1, !.currentApiUrl = u]
    /\ clientEvent' = [ClientEvent("initializeApiConfig") EXCEPT !.inst = 1]
    /\ UNCHANGED <<serverVars, intervals, polls, runs, clientBudget,
                   terminated, uploader, configService>>

\* checkConfigUpdates of the 5 minute interval: getConfig() answers u
CheckConfigUpdates(u) ==
    /\ instances # <<>>
    /\ u # hook.currentApiUrl
    /\ clientBudget.configs > 0
    /\ instances' = newInstance(instances, u)
    /\ hook' = [hook EXCEPT !.api = Len(instances) + 1, !.currentApiUrl = u]
    /\ clientBudget' = [clientBudget EXCEPT !.configs = @ - 1]
    /\ clientEvent' = [ClientEvent("checkConfigUpdates") EXCEPT
                           !.inst = Len(instances) + 1]
    /\ UNCHANGED <<serverVars, intervals, polls, runs, terminated, uploader, configService>>

\* processAudio(audioFile) up to the await of the first checkHealth()
ProcessAudio ==
    /\ clientBudget.runs > 0
    /\ IF hook.api = NoInst
       THEN /\ hook' = [hook EXCEPT !.error = "API not initialised"]
            /\ clientEvent' = [ClientEvent("processAudio") EXCEPT
                                   !.next = "return"]
            /\ UNCHANGED <<runs, clientBudget>>
       ELSE LET n == MaxRuns - clientBudget.runs + 1
            IN  /\ hook' = [hook EXCEPT !.isProcessing = TRUE, !.progress = 0,
                                        !.status = "uploading",
                                        !.error = NoMessage, !.result = NoTask]
                /\ runs' = runs \cup {[n |-> n, api |-> hook.api,
                                       url |-> hook.currentApiUrl,
                                       pc |-> "health1", okSeen |-> FALSE,
                                       reloaded |-> "", stale |-> FALSE]}
                /\ clientBudget' = [clientBudget EXCEPT !.runs = @ - 1]
                /\ clientEvent' = [ClientEvent("processAudio") EXCEPT
                                       !.run = n, !.inst = hook.api,
                                       !.next = "health1"]
    /\ UNCHANGED <<serverVars, instances, intervals, polls, terminated,
                   uploader, configService>>

\* The health check that invocation r awaits is answered; cfg is what
\* getConfig() answers in the catch of checkHealth(true).  The invocation
\* works with the api and the currentApiUrl of the render that called it.
\* It goes on to the next check, issues the upload, or throws into its
\* catch.
HealthResponse(r, outcome, cfg) ==
    /\ r \in runs
    /\ r.pc \in {"health1", "health2", "health3"}
    /\ (r.pc = "health2" /\ outcome = "error") \/ cfg = r.url
    /\ LET next == afterHealth(r.pc, outcome)
           checks == CASE r.pc = "health1" -> 1
                       [] r.pc = "health2" -> 2
                       [] OTHER -> 3
           okSeen == r.okSeen \/ outcome = "ok"
           reload == r.pc = "health2" /\ outcome = "error" /\ cfg # r.url
       IN  /\ reload => clientBudget.configs > 0
           /\ instances' = IF reload THEN newInstance(instances, cfg)
                           ELSE instances
           /\ clientBudget' = IF reload
                              THEN [clientBudget EXCEPT !.configs = @ - 1]
                              ELSE clientBudget
           /\ hook' = IF reload
                      THEN [hook EXCEPT !.api = Len(instances) + 1,
                                        !.currentApiUrl = cfg]
                      ELSE IF next = "throw"
                      THEN [hook EXCEPT !.error = "backend unavailable",
                                        !.isProcessing = FALSE]
                      ELSE hook
           /\ runs' = IF next = "throw" THEN runs \ {r}
                      ELSE (runs \ {r})
                           \cup {[r EXCEPT !.pc = next, !.okSeen = okSeen,
                                            !.reloaded = IF reload THEN cfg
                                                         ELSE @]}
           /\ clientEvent' = [ClientEvent("health") EXCEPT
                                  !.run = r.n, !.inst = r.api,
                                  !.outcome = outcome, !.checks = checks,
                                  !.next = next]
    /\ UNCHANGED <<serverVars, intervals, polls, terminated, uploader, configService>>

\* api.uploadAudio of invocation r is answered: with a task id, after which
\* the invocation starts polling on its api, or with an error
UploadResponse(r, ok) ==
    /\ r \in runs
    /\ r.pc = "upload"
    /\ LET sp == IF ok THEN startPolling(instances, intervals, r.api, r.n)
                 ELSE [insts |-> instances, ivs |-> intervals]
           h == IF ok
                THEN [hook EXCEPT !.currentTaskId = r.n,
                                  !.status = "processing"]
                ELSE [hook EXCEPT !.error = "upload failed",
                                  !.isProcessing = FALSE]
       IN  /\ hook' = h
           /\ instances' = sp.insts
           /\ intervals' = sp.ivs
           /\ runs' = runs \ {r}
           /\ clientEvent' = [ClientEvent("uploadResponse") EXCEPT
                                  !.run = r.n, !.task = r.n, !.inst = r.api,
                                  !.outcome = IF ok THEN "task" ELSE "error",
                                  !.stale = r.stale,
                                  !.changed = (workflow(h) # workflow(hook)
                                               \/ ~(sp.ivs \subseteq intervals))]
    /\ UNCHANGED <<serverVars, polls, clientBudget, terminated, uploader, configService>>

\* the callback of interval t runs up to its await: it issues
\* getTaskStatus(taskId), whether or not an earlier request is answered
PollTick(t) ==
    /\ t \in intervals
    /\ clientBudget.polls > 0
    /\ polls' = polls \cup {[n |-> MaxPolls - clientBudget.polls + 1,
                             task |-> t.task, inst |-> t.inst,
                             stale |-> FALSE]}
    /\ clientBudget' = [clientBudget EXCEPT !.polls = @ - 1]
    /\ clientEvent' = [ClientEvent("poll") EXCEPT
                           !.task = t.task, !.inst = t.inst]
    /\ UNCHANGED <<serverVars, hook, instances, intervals, runs, terminated,
                   uploader, configService>>

\* getTaskStatus of request p is answered: onUpdate, and on a terminal
\* status or a failed request stopPolling() of the instance that polled and
\* onComplete or onError
PollResponse(p, outcome) ==
    /\ p \in polls
    /\ LET sp == IF outcome = "processing"
                 THEN [insts |-> instances, ivs |-> intervals]
                 ELSE stopPolling(instances, intervals, p.inst)
           updated == IF outcome = "error" THEN hook
                      ELSE [hook EXCEPT !.progress = 50,
                                        !.status = "task message"]
           h == IF outcome = "completed"
                THEN [updated EXCEPT !.progress = 100, !.status = "done",
                                     !.result = p.task,
                                     !.isProcessing = FALSE]
                ELSE IF outcome = "failed"
                THEN [updated EXCEPT !.error = "task failed",
                                     !.isProcessing = FALSE]
                ELSE IF outcome = "error"
                THEN [updated EXCEPT !.error = "request failed",
                                     !.isProcessing = FALSE]
                ELSE updated
       IN  /\ hook' = h
           /\ instances' = sp.insts
           /\ intervals' = sp.ivs
           /\ polls' = polls \ {p}
           /\ terminated' = IF outcome = "processing" THEN terminated
                            ELSE terminated \cup {p.task}
           /\ clientEvent' = [ClientEvent("pollResponse") EXCEPT
                                  !.run = p.n, !.task = p.task,
                                  !.inst = p.inst, !.outcome = outcome,
                                  !.stale = p.stale,
                                  !.changed = (workflow(h) # workflow(hook))]
    /\ UNCHANGED <<serverVars, runs, clientBudget, uploader, configService>>

\* reset(): stopPolling() of the api the hook holds now, then the state is
\* cleared.  The requests that are unanswered at this moment are the late
\* ones.
Reset ==
    /\ LET sp == IF hook.api # NoInst
                 THEN stopPolling(instances, intervals, hook.api)
                 ELSE [insts |-> instances, ivs |-> intervals]
       IN  /\ instances' = sp.insts
           /\ intervals' = sp.ivs
    /\ hook' = [hook EXCEPT !.isProcessing = FALSE, !.progress = 0,
                            !.status = "", !.result = NoTask,
                            !.error = NoMessage, !.currentTaskId = NoTask]
    /\ runs' = {[r EXCEPT !.stale = (@ \/ r.pc = "upload")] : r \in runs}
    /\ polls' = {[p EXCEPT !.stale = TRUE] : p \in polls}
    /\ clientEvent' = ClientEvent("reset")
    /\ UNCHANGED <<serverVars, clientBudget, terminated, uploader, configService>>

\* The client workflow next to a relay server that stays as it started.
NextClient ==
    \/ \E u \in Urls : InitializeApiConfig(u)
    \/ \E u \in Urls : CheckConfigUpdates(u)
    \/ ProcessAudio
    \/ \E r \in runs, o \in HealthOutcomes, cfg \in Urls :
           HealthResponse(r, o, cfg)
    \/ \E r \in runs, ok \in BOOLEAN : UploadResponse(r, ok)
    \/ \E t \in intervals : PollTick(t)
    \/ \E p \in polls, o \in PollOutcomes : PollResponse(p, o)
    \/ Reset

InitClient ==
    /\ Init
    /\ transporter = FALSE

SpecClient == InitClient /\ [][NextClient]_vars


\* downloadResult(taskId) and getProcessedAudio(taskId), taken in one
\* step: the download of the hook's api is answered; after a failure
\* getConfig() answers cfg and, when that is another URL, the download is
\* retried on a new instance.  Without an api, and after the failure is
\* stored in error, the operation throws to its caller.
DownloadOps == {"downloadResult", "getProcessedAudio"}

Download(op, ok, cfg, retryOk) ==
    /\ LET reload == hook.api # NoInst /\ ~ok /\ cfg # hook.currentApiUrl
           rejected == hook.api = NoInst \/ (~ok /\ ~(reload /\ retryOk))
           reloadedHook == IF reload
                           THEN [hook EXCEPT !.api = Len(instances) + 1,
                                             !.currentApiUrl = cfg]
                           ELSE hook
       IN  /\ reload => clientBudget.configs > 0
           /\ instances' = IF reload THEN newInstance(instances, cfg)
                           ELSE instances
           /\ clientBudget' = IF reload
                              THEN [clientBudget EXCEPT !.configs = @ - 1]
                              ELSE clientBudget
           /\ hook' = IF hook.api # NoInst /\ rejected
                      THEN [reloadedHook EXCEPT !.error = "download failed"]
                      ELSE reloadedHook
           /\ clientEvent' = [ClientEvent(op) EXCEPT
                                  !.inst = hook.api,
                                  !.outcome = IF ok THEN "blob" ELSE "error",
                                  !.next = IF rejected THEN "throw" ELSE "return",
                                  !.rejected = rejected]
    /\ UNCHANGED <<serverVars, intervals, polls, runs, terminated, uploader, configService>>

\* The client workflow with every public operation of the hook.
NextOperations ==
    \/ \E u \in Urls : InitializeApiConfig(u)
    \/ \E u \in Urls : CheckConfigUpdates(u)
    \/ ProcessAudio
    \/ \E r \in runs, o \in HealthOutcomes, cfg \in Urls :
           HealthResponse(r, o, cfg)
    \/ \E r \in runs, ok \in BOOLEAN : UploadResponse(r, ok)
    \/ \E t \in intervals : PollTick(t)
    \/ \E p \in polls, o \in PollOutcomes : PollResponse(p, o)
    \/ Reset
    \/ \E op \in DownloadOps, ok \in BOOLEAN, cfg \in Urls, retryOk \in BOOLEAN :
           Download(op, ok, cfg, retryOk)

SpecOperations == InitClient /\ [][NextOperations]_vars

\* ------------------------------------------------------ ApiConfigService
CACHE_MINUTES == 5      \* 5 * 60 * 1000 ms
FallbackUrl == "u2"     \* VITE_BACKEND_URL || 'http://backend:5000'

\* the test of getConfig on a cached config: its updatedAt is younger than
\* 5 minutes
cacheIsFresh(cached, t) ==
    \E c \in cached : t - c.updatedAt < CACHE_MINUTES

\* getConfig() up to its await: the cached config is returned, or the
\* pending request is shared, or fetchConfig() issues GET /api/config
GetConfig ==
    /\ LET next == IF cacheIsFresh(configService.cachedConfig, now)
                   THEN "cached"
                   ELSE IF configService.configPromise THEN "shared"
                   ELSE "fetch"
       IN  /\ configService' = [configService EXCEPT
                                    !.configPromise = (@ \/ next = "fetch")]
           /\ clientEvent' = [ClientEvent("getConfig") EXCEPT !.next = next]
    /\ UNCHANGED <<serverVars, hook, instances, intervals, polls, runs,
                   clientBudget, terminated, uploader>>

\* GET /api/config is answered with the stored config, or fetchConfig
\* falls back to the default config dated now; getConfig caches the result
ConfigResponse(ok) ==
    /\ configService.configPromise
    /\ configService' =
           [cachedConfig |->
                Some(IF ok
                     THEN [apiUrl |-> apiConfig.apiUrl,
                           updatedAt |-> apiConfig.updatedAt]
                     ELSE [apiUrl |-> FallbackUrl, updatedAt |-> now]),
            configPromise |-> FALSE,
            fetchedAt |-> now]
    /\ clientEvent' = [ClientEvent("configResponse") EXCEPT
                           !.outcome = IF ok THEN "config" ELSE "error"]
    /\ UNCHANGED <<serverVars, hook, instances, intervals, polls, runs,
                   clientBudget, terminated, uploader>>

\* a minute passes on the clock of the browser
MinutePasses ==
    /\ now < StartNow + MaxMinutes
    /\ now' = now + 1
    /\ UNCHANGED <<ticks, transporter, lastNotificationTime, healthStatus,
                   statusHeap, monitoringIntervals, timers, probes,
                   deliveries, apiConfig, probeBudget, unhandled, hist,
                   failedSince, lastDelivered, alertFailed, lastEvent,
                   clientVars>>

\* The configuration cache of a client next to a server whose stored
\* config stays the one of its start.
NextCache ==
    \/ GetConfig
    \/ \E ok \in BOOLEAN : ConfigResponse(ok)
    \/ MinutePasses

SpecCache == InitClient /\ [][NextCache]_vars

\* ================================================================ claims
timersOf(u) == {t \in timers : t.url = u}

C2_SkippedIffInCooldown ==
    (lastEvent.op = "probe" /\ lastEvent.send \in {"skipped", "attempt"}) =>
        LET key == keyOf(lastEvent.notified, lastEvent.url)
        IN  (lastEvent.send = "skipped") <=>
                (/\ lastDelivered[key] # 0
                 /\ now - lastDelivered[key] < COOLDOWN_MINUTES)

C2_SecondCallSkipped ==
    /\ lastEvent.op = "probe"
    /\ lastEvent.send = "skipped"
    /\ deliveries = <<>>

\* C3: after any sequence of startMonitoring, stopMonitoring and cleanup
\* there is at most one active interval per URL, and right after
\* startMonitoring(url) there is exactly one for url.
C3_OneTimerPerUrl ==
    /\ \A u \in Urls : Cardinality(timersOf(u)) <= 1
    /\ lastEvent.op = "startMonitoring" =>
           Cardinality(timersOf(lastEvent.url)) = 1

C3_StartedTwice ==
    /\ lastEvent.op = "startMonitoring"
    /\ \E p, q \in DOMAIN probes :
           /\ p # q
           /\ probes[p].url = lastEvent.url /\ probes[p].caller = "start"
           /\ probes[q].url = lastEvent.url /\ probes[q].caller = "start"

\* C4: a failed probe triggers an error notification only if the record was
\* healthy before the probe and the failure counter has reached MAX_RETRIES;
\* a failed probe on a record that is already unhealthy triggers none.
C4_EdgeTriggered ==
    (lastEvent.op = "probe" /\ lastEvent.outcome # "ok") =>
        \A b \in lastEvent.before, a \in lastEvent.after :
            /\ lastEvent.notified = "error" =>
                   (b.isHealthy /\ a.consecutiveFailures >= MAX_RETRIES)
            /\ ~b.isHealthy => lastEvent.notified = "none"

C4_ErrorOnEdge ==
    /\ lastEvent.op = "probe"
    /\ lastEvent.outcome # "ok"
    /\ lastEvent.notified = "error"

C6_FailureCounter ==
    \A o \in DOMAIN statusHeap :
        /\ statusHeap[o].consecutiveFailures = failedSince[o]
        /\ statusHeap[o].isHealthy =>
               (statusHeap[o].consecutiveFailures = 0
                /\ statusHeap[o].lastError = NoError)

C6_TwoFailures ==
    \E o \in DOMAIN statusHeap : statusHeap[o].consecutiveFailures = 2

\* C7: whatever the probe outcome and the outcome of the notification it
\* triggers, no rejection escapes checkApiHealth, and an interval disappears
\* only in a step of stopMonitoring, cleanup or startMonitoring.
C7_ProbeNeverKillsTimer ==
    [][/\ ~unhandled'
       /\ \A t \in timers :
              \/ \E t2 \in timers' : t2.id = t.id /\ t2.url = t.url
              \/ lastEvent'.op \in {"stopMonitoring", "cleanup",
                                    "startMonitoring", "postConfig"}]_vars

C7_DeliveryFailedTimerAlive ==
    /\ lastEvent.op = "delivery"
    /\ lastEvent.send = "failed"
    /\ lastEvent.notified = "error"
    /\ timersOf(lastEvent.url) # {}

\* C8: every checkNow(url) that returns has performed one probe and returns
\* the status record resulting from that probe.
C8_CheckNowProbes ==
    lastEvent.returned =>
        (lastEvent.probed /\ lastEvent.result = lastEvent.after)

\* C9: GET /api/monitor/status reports only URLs that have an active
\* interval (a record exists only while its URL is monitored).
C9_StatusOnlyWhileMonitored ==
    \A u \in getAllHealthStatus : timersOf(u) # {}

\* C10: lastNotificationTime changes only in the step in which a delivery
\* succeeded; a call that is skipped, fails in the transport or runs without
\* a transport leaves it unchanged for every key.
C10_CooldownOnlyOnSuccess ==
    [][lastNotificationTime' # lastNotificationTime =>
          (lastEvent'.op = "delivery" /\ lastEvent'.send = "delivered")]_vars

C10_FailedDeliveryNoRecord ==
    /\ lastEvent.op = "delivery"
    /\ lastEvent.send = "failed"
    /\ lastNotificationTime[keyOf(lastEvent.notified, lastEvent.url)] = 0

\* C11: if the delivery of an error notification for a URL failed and no
\* probe of the URL has succeeded since, a failed probe of a scheduled tick
\* attempts the error notification again: after such a probe no failed
\* alert is left without a new attempt.
C11_RetryAfterFailedDelivery ==
    (/\ lastEvent.op = "probe"
     /\ lastEvent.caller = "timer"
     /\ lastEvent.outcome # "ok")
        => ~alertFailed[lastEvent.url]

\* C12 (as stated): every POST /api/config whose adminPassword differs from
\* the admin secret is answered 401 and changes neither the stored config
\* nor the timers nor the status records.
C12_WrongPasswordIs401 ==
    [][(lastEvent'.op = "postConfig" /\ ~lastEvent'.secret) =>
          (/\ lastEvent'.status = 401
           /\ UNCHANGED <<apiConfig, timers, monitoringIntervals,
                          healthStatus, statusHeap>>)]_vars

\* C12 (amended): every POST /api/config whose adminPassword differs from
\* the admin secret is rejected and changes neither the stored config nor
\* the timers nor the status records; the answer is 401 when the body
\* passes the schema (a URL and a non-empty password) and 400 when it does
\* not.
C12_WrongPasswordRejected ==
    [][(lastEvent'.op = "postConfig" /\ ~lastEvent'.secret) =>
          (/\ lastEvent'.status = IF lastEvent'.wellFormed THEN 401 ELSE 400
           /\ UNCHANGED <<apiConfig, timers, monitoringIntervals,
                          healthStatus, statusHeap>>)]_vars

C12_RejectedWhileMonitoring ==
    /\ lastEvent.op = "postConfig"
    /\ lastEvent.status = 401
    /\ timers # {}
    /\ \E u \in Urls : healthStatus[u] # NoObj

C14_RestartUnderNewUrl ==
    (lastEvent.op = "postConfig" /\ lastEvent.status = 200) =>
        LET u == lastEvent.url
        IN  /\ apiConfig.apiUrl = u
            /\ Cardinality(timers) = 1
            /\ \A t \in timers : t.url = u /\ t.id = monitoringIntervals[u]
            /\ \A v \in Urls \ {u} : monitoringIntervals[v] = NoTimer
            /\ healthStatus[u] # NoObj
            /\ statusHeap[healthStatus[u]] = initialStatus(now)

C14_OtherUrlWasMonitored ==
    /\ lastEvent.op = "postConfig"
    /\ lastEvent.status = 200
    /\ \E v \in Urls \ {lastEvent.url} : healthStatus[v] # NoObj

\* C15: a file handed to the uploader reaches onFileSelect only if its
\* size is at most 50 MB and its lower-cased extension (the text of the
\* name from its last dot on; none when the name has no dot) is one of
\* .wav, .mp3, .flac, .ogg, .m4a; a larger file, a file with another
\* extension and a file without an extension never reach it.
C15_OnlyValidFilesPass ==
    (uploader.stage = "handled" /\ uploader.outcome = "onFileSelect") =>
        LET name == uploader.name
            dots == {i \in DOMAIN name : name[i] = "."}
            extension ==
                IF dots = {} THEN <<>>
                ELSE LET dot == CHOOSE i \in dots : \A j \in dots : j <= i
                     IN  toLowerCase(SubSeq(name, dot, Len(name)))
        IN  /\ uploader.size <= 50 * 1024 * 1024
            /\ extension \in
                   {<<".", "w", "a", "v">>, <<".", "m", "p", "3">>,
                    <<".", "f", "l", "a", "c">>, <<".", "o", "g", "g">>,
                    <<".", "m", "4", "a">>}

C15_UpperCaseAtLimitPasses ==
    /\ uploader.stage = "handled"
    /\ uploader.outcome = "onFileSelect"
    /\ uploader.size = maxSize
    /\ uploader.name = <<"s", ".", "M", "P", "3">>

\* C16: when a poll response reports completed or failed, or the poll
\* request fails, the interval of that task is cleared, isProcessing is
\* false and the result (completed) or the error (failed, request failed)
\* is set; a task whose polling has ended this way has no interval and no
\* poll request is issued for it afterwards.
C16_TerminalResponseStopsPolling ==
    /\ (clientEvent.op = "pollResponse" /\ clientEvent.outcome # "processing") =>
           /\ \A t \in intervals : t.task # clientEvent.task
           /\ ~hook.isProcessing
           /\ clientEvent.outcome = "completed" => hook.result = clientEvent.task
           /\ clientEvent.outcome \in {"failed", "error"} => hook.error # NoMessage
    /\ \A t \in intervals : t.task \notin terminated
    /\ clientEvent.op = "poll" => clientEvent.task \notin terminated

C16_PollingEndedWhileProcessing ==
    /\ clientEvent.op = "pollResponse"
    /\ clientEvent.outcome = "failed"
    /\ ~clientEvent.stale
    /\ clientEvent.changed
    /\ hook.currentTaskId = clientEvent.task

\* C17: for one task at most one poll request is unanswered at any time.
C17_OnePollOutstanding ==
    \A p \in polls, q \in polls : p.task = q.task => p = q

\* C18: the response to an upload or poll request that was unanswered when
\* reset ran changes none of isProcessing, progress, status, result, error
\* and currentTaskId and starts no interval.
C18_LateResponseIgnored ==
    (clientEvent.op \in {"uploadResponse", "pollResponse"} /\ clientEvent.stale)
        => ~clientEvent.changed

\* C19: right after reset no polling interval is active and the workflow
\* is idle: isProcessing false, progress 0, status empty, result, error and
\* currentTaskId cleared.
C19_ResetCancelsPolling ==
    clientEvent.op = "reset" =>
        /\ intervals = {}
        /\ workflow(hook) = workflow(HookInit)

\* C20: an invocation of processAudio issues its upload only after one of
\* its own health checks answered ok, and when its last health check does
\* not answer ok it issues no upload and ends with the error set and
\* isProcessing false.
C20_UploadOnlyAfterHealthyCheck ==
    /\ \A r \in runs :
           r.pc = "upload" => r.okSeen
    /\ (/\ clientEvent.op = "health"
        /\ clientEvent.next \notin {"health2", "health3"}
        /\ clientEvent.outcome # "ok") =>
           /\ clientEvent.next = "throw"
           /\ \A r \in runs : r.n # clientEvent.run
           /\ hook.error # NoMessage
           /\ ~hook.isProcessing

C20_ThirdCheckUnreachable ==
    /\ clientEvent.op = "health"
    /\ clientEvent.checks = 3
    /\ clientEvent.outcome = "error"
    /\ clientEvent.next = "throw"

\* C21: an invocation of processAudio whose checkHealth(true) reloaded the
\* configuration to a different URL makes its follow-up health check and
\* its upload against an AudioSeparationAPI of the reloaded URL.
C21_FollowUpUsesReloadedUrl ==
    \A r \in runs :
        (r.reloaded # "" /\ r.pc \in {"health3", "upload"}) =>
            instances[r.api].baseURL = r.reloaded

\* C22: no public operation of the hook throws or rejects to its caller.
C22_NoOperationRejects ==
    ~clientEvent.rejected

\* C23: a probe that a timer or startMonitoring started and that resolves
\* when its URL has no interval any more (stopMonitoring or cleanup ran in
\* between) triggers no notification and leaves the URL's status record as
\* it was.
C23_StoppedProbeDiscarded ==
    (/\ lastEvent.op = "probe"
     /\ lastEvent.caller \in {"timer", "start"}
     /\ timersOf(lastEvent.url) = {}) =>
        /\ lastEvent.notified = "none"
        /\ \/ lastEvent.after = lastEvent.before
           \/ getHealthStatus(healthStatus, statusHeap, lastEvent.url)
                  # lastEvent.after

\* C24: when a probe fails whose URL had a healthy record, whether the
\* probe read that record itself (a scheduled tick) or was started by a
\* connection-error report that found the record healthy, the failure
\* triggers the error notification.
C24_OutageTriggersError ==
    [][\A p \in DOMAIN probes \ DOMAIN probes' :
          (/\ lastEvent'.op = "probe"
           /\ lastEvent'.outcome # "ok"
           /\ \/ statusHeap[probes[p].obj].isHealthy
              \/ probes[p].replacedHealthy) =>
              lastEvent'.notified = "error"]_vars

\* C25: every URL that has an active monitoring interval is the apiUrl of
\* the stored configuration.
C25_MonitorWatchesConfiguredUrl ==
    \A t \in timers : t.url = apiConfig.apiUrl

\* C27: a message is delivered for a key only if none was delivered for
\* that key within the last COOLDOWN_MINUTES, also when the calls overlap.
C27_OneDeliveryPerWindow ==
    [][(lastEvent'.op = "delivery" /\ lastEvent'.send = "delivered") =>
          LET key == keyOf(lastEvent'.notified, lastEvent'.url)
          IN  \/ lastDelivered[key] = 0
              \/ now - lastDelivered[key] >= COOLDOWN_MINUTES]_vars

\* C30: with the transport configured, the probe that takes a record from
\* healthy to unhealthy starts the delivery of the error notification (no
\* later probe of the same outage does, so an outage whose notification is
\* not started here is never reported).
C30_OutageIsReported ==
    (/\ lastEvent.op = "probe"
     /\ transporter
     /\ \E b \in lastEvent.before : b.isHealthy
     /\ \E a \in lastEvent.after : ~a.isHealthy) =>
        lastEvent.send = "attempt"

\* C26: getConfig returns the cached config without a request exactly when
\* a config is cached that was fetched less than 5 minutes ago.
C26_CachedForFiveMinutes ==
    [][GetConfig =>
        (clientEvent'.next = "cached"
            <=> (/\ configService.cachedConfig # None
                 /\ now - configService.fetchedAt < 5))]_vars

\* C28: once a run has completed (result set, isProcessing false), no later
\* poll response or poll error of that run changes progress, status, result
\* or error, and result and error are never both set.
C28_CompletedIsStable ==
    [][/\ (/\ clientEvent'.op = "pollResponse"
           /\ ~clientEvent'.stale
           /\ hook.result # NoTask
           /\ hook.result = clientEvent'.task
           /\ ~hook.isProcessing)
          => workflow(hook') = workflow(hook)
       /\ ~(hook'.result # NoTask /\ hook'.error # NoMessage)]_vars

\* C29: a probe that was in flight when startMonitoring re-initialised the
\* status record of its URL never changes the new record: when such a probe
\* settles, the record returned for the URL stays as it was.
C29_OldProbeLeavesNewRecord ==
    [][\A p \in DOMAIN probes \ DOMAIN probes' :
          (/\ lastEvent'.op = "probe"
           /\ healthStatus[probes[p].url] # NoObj
           /\ probes[p].obj # healthStatus[probes[p].url])
          => getHealthStatus(healthStatus', statusHeap', probes[p].url)
               = getHealthStatus(healthStatus, statusHeap, probes[p].url)]_vars

\* a probe of a replaced record has settled as healthy while the URL has a
\* record, which differs from the one the probe updated
C29_OldProbeSettled ==
    /\ lastEvent.op = "probe"
    /\ lastEvent.outcome = "ok"
    /\ getHealthStatus(healthStatus, statusHeap, lastEvent.url) # None
    /\ getHealthStatus(healthStatus, statusHeap, lastEvent.url) # lastEvent.after

====
